---- MODULE Spec2Model ----
(***************************************************************************)
(* Chat / unread-tracking subsystem of the ReadCount application:          *)
(* the chat screen (src/app/_layout.tsx), the DM screen with its           *)
(* moderation handler (src/app/(tabs)/dm.tsx), the handlers of the         *)
(* settings and signup screens that write user records, and the document   *)
(* store they write to.                                                    *)
(*                                                                         *)
(* Strings are sequences of one-character strings, compared by character   *)
(* code as JavaScript compares them.  Every backend write is one atomic    *)
(* step; the awaits between the writes of a handler are the points where   *)
(* other devices' steps interleave.                                        *)
(***************************************************************************)
EXTENDS Integers, Sequences, FiniteSets, TLC

VARIABLES
    \* identifier derivation probe
    idArgs,         \* the identifiers (a, b, c) handed to the derivation
    idOut,          \* the derived conversation ids, <<>> before the derivation
    \* backend (Firestore)
    userDocs,       \* users/{uid}: [exists, isBanned, reportCount, username,
                    \*               lastUsernameChange]
    reports,        \* the reports collection in commit order
    authUsers,      \* uids that have an account in Firebase Auth
    chats,          \* chats/{chatId}: the conversation summary document
    msgs,           \* chats/{chatId}/messages in commit order
    now,            \* true (server) time
    \* devices
    clockSkew,      \* device clock = now + clockSkew[c]
    mounted,        \* ChatScreen of c is mounted
    recipientId,    \* route parameter id of the mounted ChatScreen
    isBanned,       \* ChatScreen state isBanned
    inputText,      \* ChatScreen state inputText
    uploading,      \* ChatScreen state uploading
    messages,       \* ChatScreen state messages
    listeners,      \* conversations whose messages query c listens to
    reportModalVisible, \* ChatScreen state reportModalVisible
    reportReason,   \* ChatScreen state reportReason
    alert,          \* title of the Alert the latest call on c raised, or "none"
    banPc,          \* checkBanStatus: "idle" | "fetch"
    resetPc,        \* resetUnreadCount: "idle" | "get" | "update"
    send,           \* the sendMessage call in flight on c
    sendResult,     \* how the latest call of c that returned early or failed ended
    report,         \* the submitReport call in flight on c (reporting = it is not idle)
    deletePc,       \* handleDeleteAccount: "idle" | "doc" | "auth"
    nameWrite,      \* handleUpdateUsername: the name being written, or <<>>
    lastUsernameChange, \* SettingsScreen state lastUsernameChange (Absent: null)
    fetchPc,        \* fetchUserData: "idle" | "fetch"
    signupPc,       \* handleSignup of an account: "idle" | "doc"
    toast,          \* text1 of the Toast the latest settings / signup call showed
    \* DM screen
    dmEmail,        \* email of the session's currentUser
    dmMounted,      \* DMScreen is mounted
    dmListeners,    \* collections the DM screen listens to
    dmUsers,        \* DMScreen state users: the isBanned shown per listed user
    dmUnreadCounts, \* DMScreen state unreadCounts
    dmPending,      \* a change of the users collection awaits its snapshot
    banWrite,       \* handleBanToggle after its confirm: "write", then "local"
    banResult,      \* how the latest handleBanToggle ended
    \* history
    reportsDone,    \* [c][u]: submitReport calls of c against u that succeeded
    resetRun,       \* completed resets of c since the last summary write by another
    precededBy      \* message id -> ids committed before its sendMessage began

idVars == <<idArgs, idOut>>

backendVars == <<userDocs, chats, msgs>>

screenVars ==
    <<mounted, recipientId, isBanned, inputText, uploading, messages, listeners>>

taskVars == <<banPc, resetPc, send, sendResult, alert>>

reportVars == <<reports, reportModalVisible, reportReason, report, reportsDone>>

sessionVars ==
    <<authUsers, deletePc, nameWrite, lastUsernameChange, fetchPc, signupPc,
      toast, dmEmail>>

\* The DM screen without the pending snapshot.
dmScreen ==
    <<dmMounted, dmListeners, dmUsers, dmUnreadCounts, banWrite, banResult>>

dmVars == <<dmScreen, dmPending>>

histVars == <<resetRun, precededBy>>

vars ==
    <<idVars, backendVars, reportVars, sessionVars, now, clockSkew, screenVars,
      taskVars, dmVars, histVars>>

(***************************************************************************)
(* Bounds                                                                  *)
(***************************************************************************)
MaxIdLen == 3

\* Messages one conversation holds (committed or being sent).
MaxMsgs == 2

\* True time runs from 0 to MaxTime.
MaxTime == 1

\* A device clock is ahead of true time by 0..MaxSkew.
MaxSkew == 1

(***************************************************************************)
(* Strings                                                                 *)
(***************************************************************************)
\* UTF-16 code units of the characters used in the model.
CharCode == (" " :> 32) @@ ("1" :> 49) @@ ("2" :> 50) @@ ("3" :> 51) @@ ("_" :> 95) @@
            ("a" :> 97) @@ ("b" :> 98) @@ ("e" :> 101) @@ ("h" :> 104) @@
            ("i" :> 105) @@ ("l" :> 108) @@ ("o" :> 111) @@ ("u" :> 117)

\* The separator of join('_').
Separator == <<"_">>

\* s < t as Array.prototype.sort's default comparison orders two strings.
StrLess(s, t) ==
    \E i \in 1..(Len(t)) :
        /\ \A j \in 1..(i - 1) : j <= Len(s) /\ s[j] = t[j]
        /\ \/ i = Len(s) + 1
           \/ i <= Len(s) /\ CharCode[s[i]] < CharCode[t[i]]

\* [x, y].sort()
SortPair(x, y) == IF StrLess(y, x) THEN <<y, x>> ELSE <<x, y>>

\* parts.join(sep)
RECURSIVE Join(_, _)
Join(parts, sep) ==
    IF parts = <<>> THEN <<>>
    ELSE IF Len(parts) = 1 THEN parts[1]
    ELSE parts[1] \o sep \o Join(Tail(parts), sep)

\* A derivation that joins the pair in call order, without sorting it.
ChatIdUnsorted(uid, rid) == Join(<<uid, rid>>, Separator)

\* A derivation that joins the sorted pair without a separator.
ChatIdNoSeparator(uid, rid) == Join(SortPair(uid, rid), <<>>)

\* const chatId = [currentUser?.uid, recipientId].sort().join('_')
ChatId(uid, rid) == Join(SortPair(uid, rid), Separator)

Contains(s, ch) == \E i \in 1..Len(s) : s[i] = ch

\* text.trim(): whitespace removed at both ends.
RECURSIVE TrimStart(_)
TrimStart(s) ==
    IF s # <<>> /\ Head(s) = " " THEN TrimStart(Tail(s)) ELSE s

RECURSIVE TrimEnd(_)
TrimEnd(s) ==
    IF s # <<>> /\ s[Len(s)] = " " THEN TrimEnd(SubSeq(s, 1, Len(s) - 1)) ELSE s

Trim(s) == TrimEnd(TrimStart(s))

(***************************************************************************)
(* Users, sessions and documents                                           *)
(***************************************************************************)
U1 == <<"u", "1">>

U2 == <<"u", "2">>

U3 == <<"u", "3">>

\* The two accounts that chat with each other.
Users == {U1, U2}

\* All uids: the two accounts with a device in the model, and a third one.
Accounts == Users \cup {U3}

ChatIds == {ChatId(p[1], p[2]) : p \in {q \in Accounts \X Accounts : q[1] # q[2]}}

MsgIds == 1..MaxMsgs

\* A field that is not present in a document.
Absent == -1

NoChat ==
    [exists |-> FALSE, lastMessage |-> <<>>, lastMessageTimestamp |-> Absent,
     participants |-> <<>>, unreadCounts |-> [u \in Accounts |-> Absent]]

\* users/{uid} that does not exist, and the document handleSignup creates
\* (it has no isBanned, no reportCount and no lastUsernameChange field).
NoUser ==
    [exists |-> FALSE, isBanned |-> FALSE, reportCount |-> Absent,
     username |-> <<>>, lastUsernameChange |-> Absent]

\* username: "Reader"
Reader == <<"R", "e", "a", "d", "e", "r">>

NewUser ==
    [exists |-> TRUE, isBanned |-> FALSE, reportCount |-> Absent,
     username |-> Reader, lastUsernameChange |-> Absent]

\* unreadCounts[u] as a reader sees it: a missing counter reads as 0.
UnreadOf(chatDoc, u) ==
    IF chatDoc.unreadCounts[u] = Absent THEN 0 ELSE chatDoc.unreadCounts[u]

\* Timestamp.now() on device c.
ClientNow(c) == now + clockSkew[c]

\* `data:image/jpeg;base64,`
PrefixLen == 23

\* pickImage: base64Img.length > 1000000
PickCap == 1000000

\* sendMessage: imageUrl.length > 1040000
SendCap == 1040000

\* imageUrl of a message without image (null / undefined).
NoImage == 0

ImagePreview == <<"Sent an image">>

NoSend ==
    [pc |-> "idle", chatId |-> <<>>, to |-> <<>>, text |-> <<>>,
     imageUrl |-> NoImage, createdAt |-> 0, summaryAt |-> 0,
     created |-> FALSE, prior |-> {}]

NoBanWrite == [pc |-> "idle", user |-> <<>>, value |-> FALSE]

NoReport == [pc |-> "idle", reportedId |-> <<>>, reason |-> <<>>]

\* Errors a backend call can be rejected with.
BackendErrors == {"unavailable", "resource-exhausted"}

(***************************************************************************)
(* Message order of the subscription query                                 *)
(***************************************************************************)
\* orderBy('createdAt', 'asc'); equal timestamps are ordered by document id.
MsgBefore(m1, m2) ==
    \/ m1.createdAt < m2.createdAt
    \/ m1.createdAt = m2.createdAt /\ m1.id < m2.id

RECURSIVE InsertMsg(_, _)
InsertMsg(m, sorted) ==
    IF sorted = <<>> THEN <<m>>
    ELSE IF MsgBefore(m, Head(sorted)) THEN <<m>> \o sorted
    ELSE <<Head(sorted)>> \o InsertMsg(m, Tail(sorted))

RECURSIVE QueryMessages(_)
QueryMessages(docs) ==
    IF docs = <<>> THEN <<>>
    ELSE InsertMsg(docs[Len(docs)], QueryMessages(SubSeq(docs, 1, Len(docs) - 1)))

UsedIds(chatId) == {msgs[chatId][i].id : i \in 1..Len(msgs[chatId])}

\* Messages of the conversation that are committed or on their way.
Sending(chatId) == {c \in Users : send[c].pc = "add" /\ send[c].chatId = chatId}

(***************************************************************************)
(* Initial state                                                           *)
(***************************************************************************)
InitBackend ==
    /\ chats = [id \in ChatIds |-> NoChat]
    /\ msgs = [id \in ChatIds |-> <<>>]
    /\ reports = <<>>
    /\ now = 0

InitDevices ==
    /\ mounted = [c \in Users |-> FALSE]
    /\ recipientId = [c \in Users |-> <<>>]
    /\ isBanned = [c \in Users |-> FALSE]
    /\ inputText = [c \in Users |-> <<>>]
    /\ uploading = [c \in Users |-> FALSE]
    /\ messages = [c \in Users |-> <<>>]
    /\ listeners = [c \in Users |-> {}]
    /\ reportModalVisible = [c \in Users |-> FALSE]
    /\ reportReason = [c \in Users |-> <<>>]
    /\ reportsDone = [c \in Users |-> [u \in Accounts |-> 0]]
    /\ alert = [c \in Users |-> "none"]
    /\ banPc = [c \in Users |-> "idle"]
    /\ resetPc = [c \in Users |-> "idle"]
    /\ send = [c \in Users |-> NoSend]
    /\ sendResult = [c \in Users |-> "none"]
    /\ report = [c \in Users |-> NoReport]
    /\ deletePc = [c \in Users |-> "idle"]
    /\ nameWrite = [c \in Users |-> <<>>]
    /\ lastUsernameChange = [c \in Users |-> Absent]
    /\ fetchPc = [c \in Users |-> "idle"]
    /\ signupPc = [u \in Accounts |-> "idle"]
    /\ toast = [u \in Accounts |-> "none"]
    /\ dmMounted = TRUE
    /\ dmListeners = {"users"}
    /\ dmUnreadCounts = [u \in Accounts |-> Absent]
    /\ dmPending = FALSE
    /\ banWrite = NoBanWrite
    /\ banResult = "none"
    /\ resetRun = [c \in Users |-> 0]
    /\ precededBy = [i \in MsgIds |-> {}]

IdIdle ==
    /\ idArgs = <<>>
    /\ idOut = <<>>

(***************************************************************************)
(* ChatScreen: mount, effects and subscription                             *)
(***************************************************************************)
\* chatId of the ChatScreen mounted on c.
ScreenChat(c) == ChatId(c, recipientId[c])

\* A sendMessage / pickImage call may start: the screen is mounted, the input
\* bar is rendered (isBanned is false), the previous call of this device has
\* returned, and the conversation has room for one more message.
CanCall(c) ==
    /\ mounted[c]
    /\ ~isBanned[c]
    /\ send[c].pc = "idle"
    /\ Len(msgs[ScreenChat(c)]) + Cardinality(Sending(ScreenChat(c))) < MaxMsgs

\* userDoc.exists() && userDoc.data().isBanned
BanCheck(c) == userDocs[c].exists /\ userDocs[c].isBanned

\* onSnapshot(q, ...) attaches a listener to the messages query of chatId.
Subscribe(ls, chatId) == ls \cup {chatId}

\* A cleanup that leaves the listener attached.
UnsubscribeNothing(ls, chatId) == ls

\* return () => unsubscribe()
Unsubscribe(ls, chatId) == ls \ {chatId}

\* navigateToChat -> ChatScreen mounts and its effects start: the ban check
\* (still fetching, or resolved at once), the reset and the subscription.
\* A screen is opened again only after the effects of its previous mount have
\* settled, so a device runs one ban check and one reset at a time.
Mounting(c, r, fetching) ==
    /\ ~mounted[c]
    /\ banPc[c] = "idle" /\ resetPc[c] = "idle"
    /\ r # c
    /\ mounted' = [mounted EXCEPT ![c] = TRUE]
    /\ recipientId' = [recipientId EXCEPT ![c] = r]
    /\ isBanned' = [isBanned EXCEPT ![c] = ~fetching /\ BanCheck(c)]
    /\ inputText' = [inputText EXCEPT ![c] = <<>>]
    /\ uploading' = [uploading EXCEPT ![c] = FALSE]
    /\ messages' = [messages EXCEPT ![c] = <<>>]
    /\ listeners' = [listeners EXCEPT ![c] = Subscribe(@, ChatId(c, r))]
    /\ reportModalVisible' = [reportModalVisible EXCEPT ![c] = FALSE]
    /\ reportReason' = [reportReason EXCEPT ![c] = <<>>]
    /\ banPc' = [banPc EXCEPT ![c] = IF fetching THEN "fetch" ELSE "idle"]
    /\ resetPc' = [resetPc EXCEPT ![c] = "get"]
    /\ resetRun' = [resetRun EXCEPT ![c] = IF r = recipientId[c] THEN @ ELSE 0]
    /\ UNCHANGED <<idVars, reports, report, reportsDone, sessionVars,
                   backendVars, now, clockSkew, send, sendResult, dmVars,
                   precededBy, alert>>

Mount(c, r) == Mounting(c, r, TRUE)

\* Mount, with the getDoc of checkBanStatus resolving before any other step.
MountChecked(c, r) == Mounting(c, r, FALSE)

\* router.back(): the screen unmounts, the subscription is cancelled and the
\* component state is dropped.  Calls in flight run on.
Unmount(c) ==
    /\ mounted[c]
    /\ mounted' = [mounted EXCEPT ![c] = FALSE]
    /\ isBanned' = [isBanned EXCEPT ![c] = FALSE]
    /\ inputText' = [inputText EXCEPT ![c] = <<>>]
    /\ uploading' = [uploading EXCEPT ![c] = FALSE]
    /\ messages' = [messages EXCEPT ![c] = <<>>]
    /\ listeners' = [listeners EXCEPT ![c] = Unsubscribe(@, ScreenChat(c))]
    /\ reportModalVisible' = [reportModalVisible EXCEPT ![c] = FALSE]
    /\ reportReason' = [reportReason EXCEPT ![c] = <<>>]
    /\ UNCHANGED <<idVars, reports, report, reportsDone, sessionVars,
                   backendVars, now, clockSkew, recipientId, taskVars, dmVars,
                   histVars>>

\* checkBanStatus: the getDoc of users/{uid} resolves.
CheckBanStatus(c) ==
    /\ banPc[c] = "fetch"
    /\ banPc' = [banPc EXCEPT ![c] = "idle"]
    /\ isBanned' = [isBanned EXCEPT
                      ![c] = IF BanCheck(c) /\ mounted[c] THEN TRUE ELSE @]
    /\ UNCHANGED <<idVars, reportVars, sessionVars, backendVars, now,
                   clockSkew, mounted, recipientId, inputText, uploading,
                   messages, resetPc, send, sendResult, dmVars, histVars,
                   listeners, alert>>

\* checkBanStatus: the getDoc is rejected; isBanned keeps its value.
CheckBanStatusFail(c) ==
    /\ banPc[c] = "fetch"
    /\ banPc' = [banPc EXCEPT ![c] = "idle"]
    /\ UNCHANGED <<idVars, reportVars, sessionVars, backendVars, now,
                   clockSkew, screenVars, resetPc, send, sendResult, dmVars,
                   histVars, alert>>

RunDone(n) == IF n < 2 THEN n + 1 ELSE 2

\* resetUnreadCount: getDoc(chatRef) resolves.
ResetGet(c) ==
    /\ resetPc[c] = "get"
    /\ IF chats[ScreenChat(c)].exists
       THEN /\ resetPc' = [resetPc EXCEPT ![c] = "update"]
            /\ UNCHANGED resetRun
       ELSE /\ resetPc' = [resetPc EXCEPT ![c] = "idle"]
            /\ resetRun' = [resetRun EXCEPT ![c] = RunDone(@)]
    /\ UNCHANGED <<idVars, reportVars, sessionVars, backendVars, now,
                   clockSkew, screenVars, banPc, send, sendResult, dmVars,
                   precededBy, alert>>

\* A reset that writes the counter of the other participant.
ResetWriteOther(chatDoc, c) ==
    [chatDoc EXCEPT !.unreadCounts = [u \in Accounts |-> IF u # c THEN 0 ELSE @[u]]]

\* updateDoc(chatRef, {[`unreadCounts.${uid}`]: 0})
ResetWrite(chatDoc, c) == [chatDoc EXCEPT !.unreadCounts[c] = 0]

\* resetUnreadCount: the updateDoc is applied (or rejected as not-found).
ResetUpdate(c) ==
    /\ resetPc[c] = "update"
    /\ resetPc' = [resetPc EXCEPT ![c] = "idle"]
    /\ IF chats[ScreenChat(c)].exists
       THEN /\ chats' = [chats EXCEPT ![ScreenChat(c)] = ResetWrite(@, c)]
            /\ resetRun' = [resetRun EXCEPT ![c] = RunDone(@)]
       ELSE UNCHANGED <<chats, resetRun>>
    /\ UNCHANGED <<idVars, reportVars, sessionVars, userDocs, msgs, now,
                   clockSkew, screenVars, banPc, send, sendResult, dmVars,
                   precededBy, alert>>

\* resetUnreadCount: a backend call is rejected; the catch logs it.
ResetFail(c) ==
    /\ resetPc[c] \in {"get", "update"}
    /\ resetPc' = [resetPc EXCEPT ![c] = "idle"]
    /\ UNCHANGED <<idVars, reportVars, sessionVars, backendVars, now,
                   clockSkew, screenVars, banPc, send, sendResult, dmVars,
                   histVars, alert>>

\* onSnapshot callback of a messages query c listens to: setMessages(msgs).
Deliver(c) ==
    \E chatId \in listeners[c] :
        /\ messages[c] # QueryMessages(msgs[chatId])
        /\ messages' = [messages EXCEPT ![c] = QueryMessages(msgs[chatId])]
        /\ UNCHANGED <<idVars, reportVars, sessionVars, backendVars, now,
                       clockSkew, mounted, recipientId, isBanned, inputText,
                       uploading, listeners, taskVars, dmVars, histVars>>

\* onChangeText={setInputText}
ChangeText(c, t) ==
    /\ mounted[c]
    /\ ~isBanned[c]
    /\ inputText[c] # t
    /\ inputText' = [inputText EXCEPT ![c] = t]
    /\ UNCHANGED <<idVars, reportVars, sessionVars, backendVars, now,
                   clockSkew, mounted, recipientId, isBanned, uploading,
                   messages, taskVars, dmVars, histVars, listeners>>

Tick ==
    /\ now < MaxTime
    /\ now' = now + 1
    /\ UNCHANGED <<idVars, reportVars, sessionVars, backendVars, clockSkew,
                   screenVars, taskVars, dmVars, histVars>>


(***************************************************************************)
(* ChatScreen: sendMessage and pickImage                                   *)
(***************************************************************************)
\* A check that takes a whitespace-only text for a message.
IsBlankUntrimmed(text, imageUrl) == Len(text) = 0 /\ imageUrl = NoImage

\* inputText.trim().length === 0 && !imageUrl
IsBlank(text, imageUrl) == Len(Trim(text)) = 0 /\ imageUrl = NoImage

\* A pre-flight check against the cap of sendMessage.
PickTooLargeAtSendCap(base64Img) == base64Img > SendCap

\* pickImage: base64Img.length > 1000000
PickTooLarge(base64Img) == base64Img > PickCap

\* sendMessage: imageUrl && imageUrl.length > 1040000
SendTooLarge(imageUrl) == imageUrl # NoImage /\ imageUrl > SendCap

\* The document handed to addDoc(collection(db, 'chats', chatId, 'messages'), ...).
\* createTime is the commit time the backend keeps with the document.
MessageDoc(id, c, s) ==
    [id |-> id, text |-> s.text, imageUrl |-> s.imageUrl, senderId |-> c,
     createdAt |-> s.createdAt, participants |-> <<c, s.to>>, createTime |-> now]

\* A summary write that updates an existing document and creates none.
SummaryMergeNoCreate(chatDoc, c, s) ==
    IF chatDoc.exists
    THEN [chatDoc EXCEPT
            !.lastMessage = IF s.imageUrl # NoImage THEN ImagePreview ELSE s.text,
            !.lastMessageTimestamp = s.summaryAt,
            !.participants = <<c, s.to>>]
    ELSE chatDoc

\* setDoc(chatRef, {lastMessage, lastMessageTimestamp, participants}, {merge: true})
SummaryMerge(chatDoc, c, s) ==
    [chatDoc EXCEPT
        !.exists = TRUE,
        !.lastMessage = IF s.imageUrl # NoImage THEN ImagePreview ELSE s.text,
        !.lastMessageTimestamp = s.summaryAt,
        !.participants = <<c, s.to>>]

\* An increment that is applied to the sender's counter.
UnreadIncrementSender(chatDoc, c, to) ==
    [chatDoc EXCEPT !.unreadCounts[c] = UnreadOf(chatDoc, c) + 1]

\* An increment by two.
UnreadIncrementTwice(chatDoc, c, to) ==
    [chatDoc EXCEPT !.unreadCounts[to] = UnreadOf(chatDoc, to) + 2]

\* updateDoc(chatRef, {[`unreadCounts.${recipientId}`]: increment(1)})
UnreadIncrement(chatDoc, c, to) ==
    [chatDoc EXCEPT !.unreadCounts[to] = UnreadOf(chatDoc, to) + 1]

\* The body of sendMessage up to its first await, with `text` in the input.
SendMessage(c, text, imageUrl) ==
    IF isBanned[c]
    THEN /\ sendResult' = [sendResult EXCEPT ![c] = "banned"]
         /\ alert' = [alert EXCEPT ![c] = "Banned"]
         /\ inputText' = [inputText EXCEPT ![c] = text]
         /\ UNCHANGED <<send, uploading>>
    ELSE IF IsBlank(text, imageUrl)
    THEN /\ sendResult' = [sendResult EXCEPT ![c] = "blank"]
         /\ alert' = [alert EXCEPT ![c] = "none"]
         /\ inputText' = [inputText EXCEPT ![c] = text]
         /\ UNCHANGED <<send, uploading>>
    ELSE IF SendTooLarge(imageUrl)
    THEN /\ sendResult' = [sendResult EXCEPT ![c] = "sendTooLarge"]
         /\ alert' = [alert EXCEPT ![c] = "Image is too large to send."]
         /\ inputText' = [inputText EXCEPT ![c] = text]
         /\ UNCHANGED <<send, uploading>>
    ELSE /\ send' = [send EXCEPT ![c] =
                [pc |-> "add", chatId |-> ScreenChat(c), to |-> recipientId[c],
                 text |-> Trim(text), imageUrl |-> imageUrl,
                 createdAt |-> ClientNow(c), summaryAt |-> 0, created |-> FALSE,
                 prior |-> UsedIds(ScreenChat(c))]]
         /\ inputText' = [inputText EXCEPT ![c] = IF imageUrl = NoImage THEN <<>> ELSE text]
         /\ uploading' = [uploading EXCEPT ![c] = IF imageUrl # NoImage THEN TRUE ELSE @]
         /\ sendResult' = [sendResult EXCEPT ![c] = "none"]
         /\ alert' = [alert EXCEPT ![c] = "none"]

\* onPress={() => sendMessage()}
PressSend(c) ==
    /\ CanCall(c)
    /\ SendMessage(c, inputText[c], NoImage)
    /\ UNCHANGED <<idVars, reportVars, sessionVars, backendVars, now,
                   clockSkew, mounted, recipientId, isBanned, messages, banPc,
                   resetPc, dmVars, histVars, listeners>>

\* The user types t and presses send at once (onChangeText, then onPress).
TypeAndSend(c, t) ==
    /\ CanCall(c)
    /\ SendMessage(c, t, NoImage)
    /\ UNCHANGED <<idVars, reportVars, sessionVars, backendVars, now,
                   clockSkew, mounted, recipientId, isBanned, messages, banPc,
                   resetPc, dmVars, histVars, listeners>>

\* pickImage with a picked image of base64 length b64 (0: cancelled, or no
\* base64 in the result).
PickImage(c, b64) ==
    /\ CanCall(c)
    /\ ~uploading[c]
    /\ IF b64 = 0
       THEN /\ sendResult' = [sendResult EXCEPT ![c] = "cancelled"]
            /\ alert' = [alert EXCEPT ![c] = "none"]
            /\ UNCHANGED <<send, inputText, uploading>>
       ELSE IF PickTooLarge(PrefixLen + b64)
       THEN /\ sendResult' = [sendResult EXCEPT ![c] = "pickTooLarge"]
            /\ alert' = [alert EXCEPT ![c] = "Image too large"]
            /\ UNCHANGED <<send, inputText, uploading>>
       ELSE SendMessage(c, inputText[c], PrefixLen + b64)
    /\ UNCHANGED <<idVars, reportVars, sessionVars, backendVars, now,
                   clockSkew, mounted, recipientId, isBanned, messages, banPc,
                   resetPc, dmVars, histVars, listeners>>

\* Summary writes of a send end the run of resets of both participants.
RunBroken(s, c) == [u \in Users |-> IF u \in {c, s.to} THEN 0 ELSE resetRun[u]]

\* 1. addDoc is committed under document id `id`; setDoc is issued.
AddDoc(c, id) ==
    /\ send[c].pc = "add"
    /\ id \notin UsedIds(send[c].chatId)
    /\ msgs' = [msgs EXCEPT ![send[c].chatId] = Append(@, MessageDoc(id, c, send[c]))]
    /\ send' = [send EXCEPT ![c].pc = "set", ![c].summaryAt = ClientNow(c)]
    /\ precededBy' = [precededBy EXCEPT ![id] = send[c].prior]
    /\ resetRun' = RunBroken(send[c], c)
    /\ UNCHANGED <<idVars, reportVars, sessionVars, userDocs, chats, now,
                   clockSkew, screenVars, banPc, resetPc, sendResult, dmVars,
                   alert>>

\* 2. setDoc(..., {merge: true}) is committed; the increment is issued.
SetDoc(c) ==
    /\ send[c].pc = "set"
    /\ chats' = [chats EXCEPT ![send[c].chatId] = SummaryMerge(@, c, send[c])]
    /\ send' = [send EXCEPT ![c].pc = "inc",
                            ![c].created = ~chats[send[c].chatId].exists]
    /\ resetRun' = RunBroken(send[c], c)
    /\ UNCHANGED <<idVars, reportVars, sessionVars, userDocs, msgs, now,
                   clockSkew, screenVars, banPc, resetPc, sendResult, dmVars,
                   precededBy, alert>>

\* 3. updateDoc(increment(1)) is committed, or rejected as not-found when the
\* summary document does not exist; finally: setUploading(false).
Increment(c) ==
    /\ send[c].pc = "inc"
    /\ IF chats[send[c].chatId].exists
       THEN /\ chats' = [chats EXCEPT
                           ![send[c].chatId] = UnreadIncrement(@, c, send[c].to)]
            /\ resetRun' = RunBroken(send[c], c)
            /\ UNCHANGED sendResult
       ELSE /\ sendResult' = [sendResult EXCEPT ![c] = "not-found"]
            /\ UNCHANGED <<chats, resetRun>>
    /\ send' = [send EXCEPT ![c] = NoSend]
    /\ uploading' = [uploading EXCEPT ![c] = FALSE]
    /\ UNCHANGED <<idVars, reportVars, sessionVars, userDocs, msgs, now,
                   clockSkew, mounted, recipientId, isBanned, inputText,
                   messages, banPc, resetPc, dmVars, precededBy, listeners,
                   alert>>

\* catch (error): if (error.code === 'resource-exhausted') Alert.alert(...)
SendFailAlert(e, shown) ==
    IF e = "resource-exhausted" THEN "Image too large for database." ELSE shown

\* A write of the send is rejected with error code e: the catch logs it and
\* alerts for 'resource-exhausted' only; finally: setUploading(false).
SendFail(c, e) ==
    /\ send[c].pc \in {"add", "set", "inc"}
    /\ sendResult' = [sendResult EXCEPT ![c] = e]
    /\ alert' = [alert EXCEPT ![c] = SendFailAlert(e, @)]
    /\ send' = [send EXCEPT ![c] = NoSend]
    /\ uploading' = [uploading EXCEPT ![c] = FALSE]
    /\ UNCHANGED <<idVars, reportVars, sessionVars, backendVars, now,
                   clockSkew, mounted, recipientId, isBanned, inputText,
                   messages, banPc, resetPc, dmVars, histVars, listeners>>

(***************************************************************************)
(* DMScreen: the users listener and handleBanToggle                         *)
(***************************************************************************)
ADMIN_EMAIL == "millerjoel7597@gmail.com"

\* Emails a session's currentUser can have: the admin's and another one.
Emails == {ADMIN_EMAIL, "reader@example.com"}

\* A check that takes every session for the admin's.
isAdminAlways == TRUE

\* const isAdmin = currentUser?.email === ADMIN_EMAIL
isAdmin == dmEmail = ADMIN_EMAIL

\* The uid of the admin's account; the other email is u2's.
AdminUid == <<"a", "d", "m", "i", "n">>

\* auth.currentUser?.uid of the session the DM screen runs in.
currentUserId == IF dmEmail = ADMIN_EMAIL THEN AdminUid ELSE U2

\* The users the listener lists: if (doc.id !== currentUserId)
Listed == Users \ {currentUserId}

\* The isBanned the users listener reports per listed user.
UsersList == [u \in Listed |-> userDocs[u].exists /\ userDocs[u].isBanned]

\* const [unreadCounts, setUnreadCounts] = useState({})
NoUnreadCounts == [u \in Accounts |-> Absent]

\* renderUserItem: const unreadCount = unreadCounts[item.id] || 0
Badge(u) == IF dmUnreadCounts[u] = Absent THEN 0 ELSE dmUnreadCounts[u]

\* A write to the users collection is committed: a snapshot is on its way to
\* the listener, if one is attached.
UsersWritten == dmPending' = ("users" \in dmListeners)

\* The DM tab mounts: the users listener is attached and delivers the list.
DmMount ==
    /\ ~dmMounted
    /\ dmMounted' = TRUE
    /\ dmListeners' = Subscribe(dmListeners, "users")
    /\ dmUsers' = UsersList
    /\ dmUnreadCounts' = NoUnreadCounts
    /\ dmPending' = FALSE
    /\ UNCHANGED <<idVars, reportVars, sessionVars, backendVars, now,
                   clockSkew, screenVars, taskVars, banWrite, banResult,
                   histVars>>

\* The DM tab unmounts: return () => unsubscribe().  A write in flight runs on.
DmUnmount ==
    /\ dmMounted
    /\ dmMounted' = FALSE
    /\ dmListeners' = Unsubscribe(dmListeners, "users")
    /\ dmPending' = FALSE
    /\ UNCHANGED <<idVars, reportVars, sessionVars, backendVars, now,
                   clockSkew, screenVars, taskVars, dmUsers, dmUnreadCounts,
                   banWrite, banResult, histVars>>

\* Long press on `user`: if (!isAdmin) return; otherwise the confirm button is
\* pressed and updateDoc is issued with the negation of the isBanned shown in
\* the list.
HandleBanToggle(user) ==
    /\ dmMounted
    /\ user \in DOMAIN dmUsers
    /\ banWrite.pc = "idle"
    /\ IF isAdmin
       THEN /\ banWrite' = [pc |-> "write", user |-> user, value |-> ~dmUsers[user]]
            /\ banResult' = "none"
       ELSE /\ banResult' = "notAdmin"
            /\ UNCHANGED banWrite
    /\ UNCHANGED <<idVars, reportVars, sessionVars, backendVars, now,
                   clockSkew, screenVars, taskVars, dmMounted, dmListeners, dmUsers,
                   dmUnreadCounts, dmPending, histVars>>

\* updateDoc(doc(db, 'users', user.id), {isBanned: !user.isBanned}) is committed.
BanWriteCommit ==
    /\ banWrite.pc = "write"
    /\ userDocs[banWrite.user].exists
    /\ userDocs' = [userDocs EXCEPT ![banWrite.user].isBanned = banWrite.value]
    /\ banWrite' = [banWrite EXCEPT !.pc = "local"]
    /\ UsersWritten
    /\ UNCHANGED <<idVars, reportVars, sessionVars, chats, msgs, now,
                   clockSkew, screenVars, taskVars, dmMounted, dmListeners, dmUsers,
                   dmUnreadCounts, banResult, histVars>>

\* The await returns:
\* setUsers(prev => prev.map(u => u.id === user.id ? {...u, isBanned: !u.isBanned} : u))
\* and Alert "Success".
BanLocalUpdate ==
    /\ banWrite.pc = "local"
    /\ dmUsers' = IF dmMounted THEN [dmUsers EXCEPT ![banWrite.user] = ~@] ELSE dmUsers
    /\ banWrite' = NoBanWrite
    /\ banResult' = "success"
    /\ UNCHANGED <<idVars, reportVars, sessionVars, backendVars, now,
                   clockSkew, screenVars, taskVars, dmMounted, dmListeners,
                   dmUnreadCounts, dmPending, histVars>>

\* The updateDoc is rejected: Alert "Failed to update user status."
BanWriteFail ==
    /\ banWrite.pc = "write"
    /\ banWrite' = NoBanWrite
    /\ banResult' = "failed"
    /\ UNCHANGED <<idVars, reportVars, sessionVars, backendVars, now,
                   clockSkew, screenVars, taskVars, dmMounted, dmListeners, dmUsers,
                   dmUnreadCounts, dmPending, histVars>>

\* onSnapshot callback of the users collection, once per change of the
\* collection: setUsers(usersList).
UsersSnapshot ==
    /\ "users" \in dmListeners
    /\ dmPending
    /\ dmUsers' = UsersList
    /\ dmPending' = FALSE
    /\ UNCHANGED <<idVars, reportVars, sessionVars, backendVars, now,
                   clockSkew, screenVars, taskVars, dmMounted, dmListeners,
                   dmUnreadCounts, banWrite, banResult, histVars>>

(***************************************************************************)
(* Specifications                                                          *)
(***************************************************************************)
\* What the user types: nothing, whitespace only, and a text with
\* whitespace around it.
Hi == <<" ", "h", "i", " ">>

Texts == {<<>>, <<" ", " ">>, Hi}

\* Base64 lengths the picker returns: none, the largest pickImage accepts,
\* the smallest it rejects, and one above the cap of sendMessage.
Base64Lens == {0, PickCap - PrefixLen, PickCap - PrefixLen + 1, SendCap - PrefixLen + 1}

\* The auto-id of the next message when ids are handed out in order.
NextId(chatId) == Len(msgs[chatId]) + 1

\* Every account has signed up; nobody is banned or reported.
InitAccounts ==
    /\ userDocs = [u \in Accounts |-> NewUser]
    /\ authUsers = Accounts

InitQuiet ==
    /\ InitBackend
    /\ InitDevices
    /\ InitAccounts
    /\ dmEmail = ADMIN_EMAIL
    /\ dmUsers = [u \in Users |-> FALSE]
    /\ clockSkew = [c \in Users |-> 0]

Resets(c) ==
    \/ Unmount(c)
    \/ ResetGet(c)
    \/ ResetUpdate(c)

Writes(c) ==
    \/ SetDoc(c)
    \/ Increment(c)
    \/ SendFail(c, "unavailable")

\* Unread accounting: two devices with synchronized clocks open and leave the
\* conversation and send texts; any write of a send may be rejected.
Init ==
    /\ IdIdle
    /\ InitQuiet

Next ==
    \E c \in Users :
        \/ \E r \in Users : MountChecked(c, r)
        \/ Resets(c)
        \/ TypeAndSend(c, Hi)
        \/ AddDoc(c, NextId(send[c].chatId))
        \/ Writes(c)

Spec == Init /\ [][Next]_vars

\* Input validation: one device types any text and picks any image.
NextInput ==
    \/ \E r \in Users : Mount(U1, r)
    \/ Resets(U1)
    \/ CheckBanStatus(U1)
    \/ CheckBanStatusFail(U1)
    \/ ResetFail(U1)
    \/ \E t \in Texts : ChangeText(U1, t)
    \/ PressSend(U1)
    \/ \E n \in Base64Lens : PickImage(U1, n)
    \/ AddDoc(U1, NextId(send[U1].chatId))
    \/ SetDoc(U1)
    \/ Increment(U1)
    \/ \E e \in BackendErrors : SendFail(U1, e)

SpecInput == Init /\ [][NextInput]_vars

\* Moderation: one device opens the conversation and sends while the admin
\* session bans and unbans users.
NextBan ==
    \/ \E r \in Users : Mount(U1, r)
    \/ Resets(U1)
    \/ CheckBanStatus(U1)
    \/ CheckBanStatusFail(U1)
    \/ TypeAndSend(U1, Hi)
    \/ AddDoc(U1, NextId(send[U1].chatId))
    \/ SetDoc(U1)
    \/ Increment(U1)
    \/ \E u \in Users : HandleBanToggle(u)
    \/ BanWriteCommit
    \/ BanLocalUpdate
    \/ BanWriteFail
    \/ UsersSnapshot

SpecBan == Init /\ [][NextBan]_vars

\* Message order: both devices have the conversation open (mounted, ban check
\* and reset done on the empty conversation), their clocks are ahead of true
\* time by any skew, and snapshots arrive at any time.  Auto-ids follow the
\* commit order, the case in which equal timestamps never reorder messages.
InitOrder ==
    /\ IdIdle
    /\ InitBackend
    /\ InitAccounts
    /\ dmEmail = ADMIN_EMAIL
    /\ dmUsers = [u \in Users |-> FALSE]
    /\ clockSkew \in [Users -> 0..MaxSkew]
    /\ mounted = [c \in Users |-> TRUE]
    /\ recipientId = [c \in Users |-> IF c = U1 THEN U2 ELSE U1]
    /\ isBanned = [c \in Users |-> FALSE]
    /\ inputText = [c \in Users |-> <<>>]
    /\ uploading = [c \in Users |-> FALSE]
    /\ messages = [c \in Users |-> <<>>]
    /\ listeners = [c \in Users |-> {ChatId(U1, U2)}]
    /\ reportModalVisible = [c \in Users |-> FALSE]
    /\ reportReason = [c \in Users |-> <<>>]
    /\ reportsDone = [c \in Users |-> [u \in Accounts |-> 0]]
    /\ alert = [c \in Users |-> "none"]
    /\ banPc = [c \in Users |-> "idle"]
    /\ resetPc = [c \in Users |-> "idle"]
    /\ send = [c \in Users |-> NoSend]
    /\ sendResult = [c \in Users |-> "none"]
    /\ report = [c \in Users |-> NoReport]
    /\ deletePc = [c \in Users |-> "idle"]
    /\ nameWrite = [c \in Users |-> <<>>]
    /\ lastUsernameChange = [c \in Users |-> Absent]
    /\ fetchPc = [c \in Users |-> "idle"]
    /\ signupPc = [u \in Accounts |-> "idle"]
    /\ toast = [u \in Accounts |-> "none"]
    /\ dmMounted = TRUE
    /\ dmListeners = {"users"}
    /\ dmUnreadCounts = [u \in Accounts |-> Absent]
    /\ dmPending = FALSE
    /\ banWrite = NoBanWrite
    /\ banResult = "none"
    /\ resetRun = [c \in Users |-> 1]
    /\ precededBy = [i \in MsgIds |-> {}]

NextOrder ==
    \/ Tick
    \/ \E c \in Users :
        \/ TypeAndSend(c, Hi)
        \/ AddDoc(c, NextId(send[c].chatId))
        \/ SetDoc(c)
        \/ Increment(c)
        \/ Deliver(c)

SpecOrder == InitOrder /\ [][NextOrder]_vars

(***************************************************************************)
(* Unread accounting                                                       *)
(***************************************************************************)
\* The Increment step of c's send was committed (not rejected).
IncrementCommitted(c) == Increment(c) /\ chats' # chats

\* C1: of the three writes of a sendMessage by A to B (A # B), the message
\* append and the summary merge-write leave every unread counter as it is,
\* and the committed increment raises unreadCounts[B] by exactly 1 over its
\* value before the write and leaves unreadCounts[A] unchanged.
C1_SendIncrementsRecipientOnly ==
    [][\A c \in Users :
        LET s == send[c]
            before == chats[s.chatId]
            after == chats'[s.chatId]
        IN  /\ ((\E id \in MsgIds : AddDoc(c, id)) \/ SetDoc(c))
                => after.unreadCounts = before.unreadCounts
            /\ IncrementCommitted(c)
                => /\ s.to # c
                   /\ UnreadOf(after, s.to) = UnreadOf(before, s.to) + 1
                   /\ after.unreadCounts[c] = before.unreadCounts[c]
                   /\ \A id \in ChatIds \ {s.chatId} : chats'[id] = chats[id]]_vars

\* Both participants have completed a send: each counter was raised once.
C1_Witness ==
    /\ \A c \in Users : send[c].pc = "idle" /\ sendResult[c] = "none"
    /\ Len(msgs[ChatId(U1, U2)]) = 2
    /\ \A u \in Users : chats[ChatId(U1, U2)].unreadCounts[u] = 1

\* C9: a completed resetUnreadCount of B leaves unreadCounts[B] at 0, and a
\* reset that follows a completed reset of B with no write of a send in
\* between does not change the summary record.
C9_ResetIdempotent ==
    [][\A c \in Users :
        (ResetUpdate(c) \/ (ResetGet(c) /\ resetPc'[c] = "idle"))
            => /\ UnreadOf(chats'[ScreenChat(c)], c) = 0
               /\ resetRun[c] >= 1 => chats' = chats]_vars

\* B has reset twice in a row on an existing summary record.
C9_Witness ==
    \E c \in Users :
        /\ resetRun[c] = 2
        /\ resetPc[c] = "idle"
        /\ chats[ScreenChat(c)].exists
        /\ chats[ScreenChat(c)].unreadCounts[c] = 0
        /\ Len(msgs[ScreenChat(c)]) > 0

\* C10: the summary write of a send creates the record when it is absent: a
\* send that reaches its increment finds the record with lastMessage set, no
\* send ends with not-found, and the send whose merge-write created the
\* record leaves unreadCounts[recipient] = 1 when its increment commits.
C10_CreateIfAbsent ==
    [][\A c \in Users :
        /\ send'[c].pc = "inc"
            => /\ chats'[send'[c].chatId].exists
               /\ chats'[send'[c].chatId].lastMessage # <<>>
        /\ sendResult'[c] # "not-found"
        /\ (IncrementCommitted(c) /\ send[c].created)
            => UnreadOf(chats'[send[c].chatId], send[c].to) = 1]_vars

\* The first message of a new conversation went through.
C10_Witness ==
    \E c \in Users :
        /\ recipientId[c] # <<>>
        /\ send[c].pc = "idle" /\ sendResult[c] = "none"
        /\ Len(msgs[ScreenChat(c)]) = 1
        /\ msgs[ScreenChat(c)][1].senderId = c
        /\ chats[ScreenChat(c)].exists
        /\ chats[ScreenChat(c)].lastMessage = <<"h", "i">>
        /\ chats[ScreenChat(c)].unreadCounts[recipientId[c]] = 1

(***************************************************************************)
(* Input validation                                                        *)
(***************************************************************************)
AllSpaces(text) == \A i \in 1..Len(text) : text[i] = " "

\* C7: a sendMessage call with an empty or whitespace-only input and no image
\* writes nothing: no message is appended, the summary and every unread
\* counter stay as they are, and no write is left in flight.
C7_BlankTextNoWrite ==
    [][\A c \in Users :
        (PressSend(c) /\ AllSpaces(inputText[c]))
            => /\ UNCHANGED backendVars
               /\ send'[c].pc = "idle"]_vars

\* A whitespace-only input was sent and rejected.
C7_Witness ==
    /\ sendResult[U1] = "blank"
    /\ inputText[U1] = <<" ", " ">>
    /\ send[U1].pc = "idle"

\* C8: an image whose encoded length exceeds the cap of pickImage is rejected
\* by the send path before any write: nothing is appended, the summary is
\* unchanged and no write is left in flight.
C8_OversizedImageNoWrite ==
    [][\A c \in Users : \A n \in Base64Lens :
        (PickImage(c, n) /\ PrefixLen + n > PickCap)
            => /\ UNCHANGED backendVars
               /\ send'[c] = send[c]
               /\ send[c].pc = "idle"]_vars

\* An oversized image was picked and rejected.
C8_Witness ==
    /\ sendResult[U1] = "pickTooLarge"
    /\ send[U1].pc = "idle"

(***************************************************************************)
(* Moderation                                                              *)
(***************************************************************************)
\* c calls sendMessage: by the send button or through pickImage.
CallsSend(c) ==
    \/ PressSend(c)
    \/ \E t \in Texts : TypeAndSend(c, t)
    \/ \E n \in Base64Lens : PickImage(c, n) /\ n # 0 /\ ~PickTooLarge(PrefixLen + n)

\* C2: whenever the backend record of U has isBanned = true, a sendMessage
\* of U is rejected: it starts no write and the message log stays as it is.
C2_BannedSendRejected ==
    [][\A c \in Users :
        (userDocs[c].isBanned /\ CallsSend(c))
            => /\ send'[c].pc = "idle"
               /\ msgs' = msgs]_vars

(***************************************************************************)
(* Message order                                                           *)
(***************************************************************************)
AllMessages == UNION {{msgs[id][i] : i \in 1..Len(msgs[id])} : id \in ChatIds}

\* C4: the createdAt stored on every message is the server's time at the
\* write, not the sending device's clock.
C4_ServerTimestamp ==
    \A m \in AllMessages : m.createdAt = m.createTime

\* C3: when a message was committed before the sendMessage of another one
\* began, every subscriber that shows both shows them in that order.
C3_SequentialOrder ==
    \A c \in Users : \A i, j \in 1..Len(messages[c]) :
        messages[c][i].id \in precededBy[messages[c][j].id] => i < j

(***************************************************************************)
(* The identifier derivation applied to arbitrary identifiers              *)
(***************************************************************************)
IdChars == {"_", "a", "b"}

Ids == UNION {[1..n -> IdChars] : n \in 1..MaxIdLen}

InitId ==
    /\ idArgs \in Ids \X Ids \X Ids
    /\ idOut = <<>>
    /\ InitQuiet

\* a's client opens b, b's client opens a, a's client opens c.
DeriveIds ==
    /\ idOut = <<>>
    /\ idOut' = <<ChatId(idArgs[1], idArgs[2]),
                  ChatId(idArgs[2], idArgs[1]),
                  ChatId(idArgs[1], idArgs[3])>>
    /\ UNCHANGED <<idArgs, reportVars, sessionVars, backendVars, now,
                   clockSkew, screenVars, taskVars, dmVars, histVars>>

NextDerive == DeriveIds

SpecId == InitId /\ [][NextDerive]_vars

\* C5: the conversation id a's client derives for recipient b equals the id
\* b's client derives for recipient a, for all identifier pairs.
C5_Commutative ==
    idOut # <<>> => idOut[1] = idOut[2]

C5_Witness ==
    /\ idOut # <<>>
    /\ StrLess(idArgs[2], idArgs[1])
    /\ Contains(idArgs[1], "_")

\* C6 as stated: for all a, b, c with a # b and b # c the ids of (a, b) and
\* (a, c) differ, also when identifiers contain the separator.
C6_Original ==
    (idOut # <<>> /\ idArgs[1] # idArgs[2] /\ idArgs[2] # idArgs[3])
        => idOut[1] # idOut[3]

\* C6 amended: for identifiers that do not contain the separator '_', a # b
\* and b # c imply that the ids of (a, b) and (a, c) differ.
C6_CollisionFree ==
    (/\ idOut # <<>>
     /\ idArgs[1] # idArgs[2] /\ idArgs[2] # idArgs[3]
     /\ \A k \in 1..3 : ~Contains(idArgs[k], "_"))
        => idOut[1] # idOut[3]

\* a = "aba", b = "ba", c = "ab": the pair sorts differently around a.
C6_Witness ==
    /\ idOut # <<>>
    /\ idArgs = << <<"a", "b", "a">>, <<"b", "a">>, <<"a", "b">> >>
    /\ idOut[1] # idOut[3]

(***************************************************************************)
(* Scenario: u1 sends "hello", u2 opens the conversation and replies "hi"  *)
(***************************************************************************)
Hello == <<"h", "e", "l", "l", "o">>

Reply == <<"h", "i">>

\* The user types the next character of `text` into the input.
TypeNext(c, text) ==
    /\ Len(inputText[c]) < Len(text)
    /\ inputText[c] = SubSeq(text, 1, Len(inputText[c]))
    /\ ChangeText(c, SubSeq(text, 1, Len(inputText[c]) + 1))

\* A's sendMessage has returned and B has not opened the conversation yet.
AfterHello ==
    /\ Len(msgs[ChatId(U1, U2)]) = 1
    /\ send[U1].pc = "idle"
    /\ recipientId[U2] = <<>>

\* The effects of a mounted screen, its snapshots, and the writes of a send.
ScenarioSteps(c) ==
    \/ CheckBanStatus(c)
    \/ ResetGet(c)
    \/ ResetUpdate(c)
    \/ Deliver(c)
    \/ AddDoc(c, NextId(send[c].chatId))
    \/ SetDoc(c)
    \/ Increment(c)

\* A has opened the conversation with B (the reset of the mount has run on the
\* absent record) and has sent nothing yet.
Opened == resetPc[U1] = "idle" /\ msgs[ChatId(U1, U2)] = <<>>

\* A opens the conversation with B, then types "hello" and sends it; when the
\* send has returned B opens the conversation with A, types "hi" and sends
\* it.  No backend call fails.
NextScenario ==
    \/ Tick
    \/ recipientId[U1] = <<>> /\ Mount(U1, U2)
    \/ Opened /\ TypeNext(U1, Hello)
    \/ Opened /\ inputText[U1] = Hello /\ PressSend(U1)
    \/ AfterHello /\ Mount(U2, U1)
    \/ mounted[U2] /\ Len(msgs[ChatId(U1, U2)]) = 1 /\ TypeNext(U2, Reply)
    \/ mounted[U2] /\ Len(msgs[ChatId(U1, U2)]) = 1 /\ inputText[U2] = Reply
         /\ PressSend(U2)
    \/ \E c \in Users : ScenarioSteps(c)

SpecScenario == Init /\ [][NextScenario]_vars

\* C11: with users u1 (A) and u2 (B) and no conversation record at the start,
\* both clients derive the id "u1_u2"; once A's send of "hello" has returned
\* the summary has unreadCounts[u2] = 1 and lastMessage = "hello"; once B has
\* then opened the conversation and the reset has completed unreadCounts[u2]
\* is 0; once B's reply "hi" has returned unreadCounts[u1] = 1.
C11_Scenario ==
    LET id == <<"u", "1", "_", "u", "2">>
    IN  /\ \A c \in Users : mounted[c] => ScreenChat(c) = id
        /\ AfterHello
            => /\ chats[id].unreadCounts[U2] = 1
               /\ chats[id].lastMessage = Hello
        /\ (recipientId[U2] = U1 /\ resetPc[U2] = "idle")
            => chats[id].unreadCounts[U2] = 0
        /\ (Len(msgs[id]) = 2 /\ send[U2].pc = "idle")
            => /\ chats[id].unreadCounts[U1] = 1
               /\ chats[id].lastMessage = Reply

\* The scenario has run to its end.
C11_Witness ==
    /\ Len(msgs[ChatId(U1, U2)]) = 2
    /\ msgs[ChatId(U1, U2)][1].text = Hello /\ msgs[ChatId(U1, U2)][1].senderId = U1
    /\ msgs[ChatId(U1, U2)][2].text = Reply /\ msgs[ChatId(U1, U2)][2].senderId = U2
    /\ \A c \in Users : send[c].pc = "idle" /\ resetPc[c] = "idle"
    /\ chats[ChatId(U1, U2)].unreadCounts[U1] = 1
    /\ chats[ChatId(U1, U2)].unreadCounts[U2] = 0

(***************************************************************************)
(* Three accounts: who lowers an unread counter                            *)
(***************************************************************************)
\* The conversations a device opens: u1 chats with u2; u2 chats with u1 and
\* with u3, so that each device is a third party to one conversation.
Contacts(c) == IF c = U1 THEN {U2} ELSE {U1, U3}

\* Messages of all conversations, committed or on their way.
TotalMsgs ==
    LET RECURSIVE Sum(_)
        Sum(ids) ==
            IF ids = {} THEN 0
            ELSE LET id == CHOOSE x \in ids : TRUE
                 IN  Len(msgs[id]) + Cardinality(Sending(id)) + Sum(ids \ {id})
    IN  Sum(ChatIds)

NextThird ==
    \E c \in Users :
        \/ \E r \in Contacts(c) : MountChecked(c, r)
        \/ Resets(c)
        \/ TotalMsgs < MaxMsgs /\ TypeAndSend(c, Hi)
        \/ AddDoc(c, NextId(send[c].chatId))
        \/ Writes(c)

SpecThird == Init /\ [][NextThird]_vars

\* The write lowers (or removes) unreadCounts[u] of conversation id.
Lowered(id, u) == chats'[id].unreadCounts[u] < chats[id].unreadCounts[u]

\* C12: in every step that lowers unreadCounts[U] of a conversation, the step
\* is the reset write that U's own device issued on opening that
\* conversation and it leaves the counter at 0; no step of the other
\* participant or of a third user lowers it.
C12_OnlyOwnReset ==
    [][\A id \in ChatIds : \A u \in Accounts :
        Lowered(id, u)
            => /\ u \in Users
               /\ ResetUpdate(u)
               /\ ScreenChat(u) = id
               /\ chats'[id].unreadCounts[u] = 0]_vars

\* u2 has read the message u1 sent it while u2 also has a conversation with
\* u3 under way.
C12_Witness ==
    /\ Len(msgs[ChatId(U1, U2)]) > 0
    /\ msgs[ChatId(U1, U2)][1].senderId = U1
    /\ chats[ChatId(U1, U2)].unreadCounts[U2] = 0
    /\ chats[ChatId(U2, U3)].unreadCounts[U3] > 0
    /\ resetPc[U2] = "idle"

(***************************************************************************)
(* Partial failure of a send                                               *)
(***************************************************************************)
Range2(pair) == {pair[1], pair[2]}

\* Messages in the log of conversation id that were sent to u.
SentTo(id, u) ==
    Cardinality({i \in 1..Len(msgs[id]) :
                    msgs[id][i].senderId # u /\ u \in Range2(msgs[id][i].participants)})

\* C13: a write of sendMessage that fails after the append leaves the
\* appended message in the log (no step removes or changes a logged message),
\* and in every state reached unreadCounts[B] of a conversation is at most
\* the number of messages in its log that were sent to B.
C13_UndercountOnly ==
    [][/\ \A c \in Users : \A e \in BackendErrors : SendFail(c, e) => msgs' = msgs
       /\ \A id \in ChatIds :
            /\ Len(msgs'[id]) >= Len(msgs[id])
            /\ SubSeq(msgs'[id], 1, Len(msgs[id])) = msgs[id]
            /\ \A u \in Accounts : UnreadOf(chats'[id], u) <= (SentTo(id, u))']_vars

\* u1's second message was appended, then a summary write of that send was
\* rejected: the log holds two messages to u2 and the counter is behind.
C13_Witness ==
    /\ Len(msgs[ChatId(U1, U2)]) = 2
    /\ \A i \in 1..2 : msgs[ChatId(U1, U2)][i].senderId = U1
    /\ send[U1].pc = "idle" /\ sendResult[U1] = "unavailable"
    /\ UnreadOf(chats[ChatId(U1, U2)], U2) < 2

(***************************************************************************)
(* ChatScreen: reporting the other participant                             *)
(***************************************************************************)
\* Report records the collection holds, committed or on their way.
MaxReports == 3

\* reportCount as a reader sees it: data.reportCount || 0
ReportCountOf(u) ==
    IF userDocs[u].reportCount = Absent THEN 0 ELSE userDocs[u].reportCount

Reporting(c) == report[c].pc # "idle"

\* openReportModal
OpenReportModal(c) ==
    /\ mounted[c]
    /\ ~reportModalVisible[c]
    /\ reportModalVisible' = [reportModalVisible EXCEPT ![c] = TRUE]
    /\ reportReason' = [reportReason EXCEPT ![c] = <<>>]
    /\ UNCHANGED <<idVars, reports, report, reportsDone, sessionVars,
                   backendVars, now, clockSkew, screenVars, taskVars, dmVars,
                   histVars>>

\* onChangeText={setReportReason}
ChangeReason(c, t) ==
    /\ reportModalVisible[c]
    /\ reportReason[c] # t
    /\ reportReason' = [reportReason EXCEPT ![c] = t]
    /\ UNCHANGED <<idVars, reports, reportModalVisible, report, reportsDone,
                   sessionVars, backendVars, now, clockSkew, screenVars,
                   taskVars, dmVars, histVars>>

\* A check that takes a whitespace-only reason for a reason.
IsBlankReasonUntrimmed(reason) == Len(reason) = 0

\* !reportReason.trim()
IsBlankReason(reason) == Len(Trim(reason)) = 0

\* submitReport up to its first await (the button is disabled while reporting).
SubmitReport(c) ==
    /\ mounted[c]
    /\ reportModalVisible[c]
    /\ ~Reporting(c)
    /\ Len(reports) + Cardinality({d \in Users : report[d].pc = "add"}) < MaxReports
    /\ IF IsBlankReason(reportReason[c])
       THEN /\ alert' = [alert EXCEPT ![c] = "Reason Required"]
            /\ UNCHANGED report
       ELSE /\ report' = [report EXCEPT ![c] =
                    [pc |-> "add", reportedId |-> recipientId[c],
                     reason |-> Trim(reportReason[c])]]
            /\ alert' = [alert EXCEPT ![c] = "none"]
    /\ UNCHANGED <<idVars, reports, reportModalVisible, reportReason,
                   reportsDone, sessionVars, backendVars, now, clockSkew,
                   screenVars, banPc, resetPc, send, sendResult, dmVars,
                   histVars>>

\* 1. addDoc(collection(db, 'reports'), ...) is committed; the increment is
\* issued.
ReportAdd(c) ==
    /\ report[c].pc = "add"
    /\ reports' = Append(reports,
                        [reporterId |-> c, reportedId |-> report[c].reportedId,
                         timestamp |-> ClientNow(c), reason |-> report[c].reason])
    /\ report' = [report EXCEPT ![c].pc = "inc"]
    /\ UNCHANGED <<idVars, reportModalVisible, reportReason, reportsDone,
                   sessionVars, backendVars, now, clockSkew, screenVars,
                   taskVars, dmVars, histVars>>

\* An increment of the report count by two.
ReportCountIncrementTwice(userDoc) ==
    [userDoc EXCEPT !.reportCount = IF @ = Absent THEN 2 ELSE @ + 2]

\* updateDoc(reportedUserRef, {reportCount: increment(1)})
ReportCountIncrement(userDoc) ==
    [userDoc EXCEPT !.reportCount = IF @ = Absent THEN 1 ELSE @ + 1]

\* 2. The increment is committed: the modal closes and Alert "Reported"; or it
\* is rejected as not-found when users/{reportedId} does not exist: Alert
\* "Failed to report user."  finally: setReporting(false).
ReportInc(c) ==
    /\ report[c].pc = "inc"
    /\ IF userDocs[report[c].reportedId].exists
       THEN /\ userDocs' = [userDocs EXCEPT
                              ![report[c].reportedId] = ReportCountIncrement(@)]
            /\ reportModalVisible' = [reportModalVisible EXCEPT ![c] = FALSE]
            /\ reportsDone' = [reportsDone EXCEPT ![c][report[c].reportedId] = @ + 1]
            /\ alert' = [alert EXCEPT ![c] = "Reported"]
            /\ UsersWritten
       ELSE /\ alert' = [alert EXCEPT ![c] = "Failed to report user."]
            /\ UNCHANGED <<userDocs, reportModalVisible, reportsDone, dmPending>>
    /\ report' = [report EXCEPT ![c] = NoReport]
    /\ UNCHANGED <<idVars, reports, reportReason, sessionVars, chats, msgs,
                   now, clockSkew, screenVars, banPc, resetPc, send,
                   sendResult, dmScreen, histVars>>

\* A write of the report is rejected: the catch logs it and shows Alert
\* "Failed to report user."; finally: setReporting(false).
ReportFail(c) ==
    /\ Reporting(c)
    /\ alert' = [alert EXCEPT ![c] = "Failed to report user."]
    /\ report' = [report EXCEPT ![c] = NoReport]
    /\ UNCHANGED <<idVars, reports, reportModalVisible, reportReason,
                   reportsDone, sessionVars, backendVars, now, clockSkew,
                   screenVars, banPc, resetPc, send, sendResult, dmVars,
                   histVars>>

\* What the reporter types: nothing, whitespace only, and a reason with
\* whitespace around it.
Reasons == {<<>>, <<" ", " ">>, <<" ", "b", "a", "d", " ">>}

\* Both devices have the conversation with u3 open (mounted, ban check and
\* reset done on the absent record).
InitReport ==
    /\ IdIdle
    /\ InitBackend
    /\ InitAccounts
    /\ dmEmail = ADMIN_EMAIL
    /\ dmUsers = [u \in Users |-> FALSE]
    /\ clockSkew = [c \in Users |-> 0]
    /\ mounted = [c \in Users |-> TRUE]
    /\ recipientId = [c \in Users |-> U3]
    /\ isBanned = [c \in Users |-> FALSE]
    /\ inputText = [c \in Users |-> <<>>]
    /\ uploading = [c \in Users |-> FALSE]
    /\ messages = [c \in Users |-> <<>>]
    /\ listeners = [c \in Users |-> {ChatId(c, U3)}]
    /\ reportModalVisible = [c \in Users |-> FALSE]
    /\ reportReason = [c \in Users |-> <<>>]
    /\ reportsDone = [c \in Users |-> [u \in Accounts |-> 0]]
    /\ alert = [c \in Users |-> "none"]
    /\ banPc = [c \in Users |-> "idle"]
    /\ resetPc = [c \in Users |-> "idle"]
    /\ send = [c \in Users |-> NoSend]
    /\ sendResult = [c \in Users |-> "none"]
    /\ report = [c \in Users |-> NoReport]
    /\ deletePc = [c \in Users |-> "idle"]
    /\ nameWrite = [c \in Users |-> <<>>]
    /\ lastUsernameChange = [c \in Users |-> Absent]
    /\ fetchPc = [c \in Users |-> "idle"]
    /\ signupPc = [u \in Accounts |-> "idle"]
    /\ toast = [u \in Accounts |-> "none"]
    /\ dmMounted = TRUE
    /\ dmListeners = {"users"}
    /\ dmUnreadCounts = [u \in Accounts |-> Absent]
    /\ dmPending = FALSE
    /\ banWrite = NoBanWrite
    /\ banResult = "none"
    /\ resetRun = [c \in Users |-> 1]
    /\ precededBy = [i \in MsgIds |-> {}]

\* Two reporters report u3, each any number of times; any write may be
\* rejected.
NextReport ==
    \E c \in Users :
        \/ OpenReportModal(c)
        \/ \E t \in Reasons : ChangeReason(c, t)
        \/ SubmitReport(c)
        \/ ReportAdd(c)
        \/ ReportInc(c)
        \/ ReportFail(c)

SpecReport == InitReport /\ [][NextReport]_vars

\* C17: a submitReport call with an empty or whitespace-only reason makes no
\* remote call: no report record is created, no write is left in flight and
\* every user record (the reported user's reportCount included) is unchanged.
C17_EmptyReasonRejected ==
    [][\A c \in Users :
        (SubmitReport(c) /\ AllSpaces(reportReason[c]))
            => /\ reports' = reports
               /\ userDocs' = userDocs
               /\ report'[c].pc = "idle"]_vars

\* A whitespace-only reason was submitted and rejected.
C17_Witness ==
    \E c \in Users :
        /\ alert[c] = "Reason Required"
        /\ reportReason[c] = <<" ", " ">>
        /\ ~Reporting(c)

\* Report records of reporter c against u.
RecordsOf(c, u) ==
    Cardinality({i \in 1..Len(reports) :
                    reports[i].reporterId = c /\ reports[i].reportedId = u})

RECURSIVE SumDone(_, _)
SumDone(cs, u) ==
    IF cs = {} THEN 0
    ELSE LET c == CHOOSE x \in cs : TRUE
         IN  reportsDone[c][u] + SumDone(cs \ {c}, u)

\* C18: the addDoc of a submitReport appends exactly one report record (of
\* that reporter against that user) and the committed increment raises the
\* reported user's reportCount by exactly 1 and no other count; so in every
\* state reached reportCount[u] equals the number of submitReport calls
\* against u that succeeded, summed over the reporters, with repeated
\* reports of one reporter counted each time.
C18_ReportCountsEach ==
    [][/\ \A c \in Users :
            /\ ReportAdd(c)
                => /\ Len(reports') = Len(reports) + 1
                   /\ reports'[Len(reports')].reporterId = c
                   /\ reports'[Len(reports')].reportedId = report[c].reportedId
                   /\ userDocs' = userDocs
            /\ (ReportInc(c) /\ userDocs' # userDocs)
                => /\ reports' = reports
                   /\ \A u \in Accounts :
                        (ReportCountOf(u))' =
                            ReportCountOf(u) + IF u = report[c].reportedId THEN 1 ELSE 0
       /\ \A u \in Accounts :
            /\ (ReportCountOf(u))' = (SumDone(Users, u))'
            /\ \A c \in Users : reportsDone'[c][u] <= (RecordsOf(c, u))']_vars

\* u1 has reported u3 twice and u2 once, u2's report between u1's two.
C18_Witness ==
    /\ Len(reports) = 3
    /\ reports[1].reporterId = U1 /\ reports[2].reporterId = U2
    /\ reports[3].reporterId = U1
    /\ reportsDone[U1][U3] = 2 /\ reportsDone[U2][U3] = 1
    /\ userDocs[U3].reportCount = 3

(***************************************************************************)
(* Rejected writes                                                         *)
(***************************************************************************)
\* u1 has the conversation with u3 open, sends and reports; the admin
\* session toggles bans; any write may be rejected with any error.
NextFailure ==
    \/ TypeAndSend(U1, Hi)
    \/ AddDoc(U1, NextId(send[U1].chatId))
    \/ SetDoc(U1)
    \/ Increment(U1)
    \/ \E e \in BackendErrors : SendFail(U1, e)
    \/ OpenReportModal(U1)
    \/ \E t \in Reasons : ChangeReason(U1, t)
    \/ SubmitReport(U1)
    \/ ReportAdd(U1)
    \/ ReportInc(U1)
    \/ ReportFail(U1)
    \/ \E u \in Users : HandleBanToggle(u)
    \/ BanWriteCommit
    \/ BanLocalUpdate
    \/ BanWriteFail
    \/ UsersSnapshot

SpecFailure == InitReport /\ [][NextFailure]_vars

\* C14: every rejected write of a message append, a summary update, a report
\* or a ban toggle makes the call that issued it show a failure alert.
C14_FailuresSurfaced ==
    [][/\ \A c \in Users : \A e \in BackendErrors :
            SendFail(c, e) => alert'[c] = "Image too large for database."
       /\ \A c \in Users : ReportFail(c) => alert'[c] = "Failed to report user."
       /\ BanWriteFail => banResult' = "failed"]_vars

(***************************************************************************)
(* The DM screen in admin and non-admin sessions                           *)
(***************************************************************************)
InitAdmin ==
    /\ IdIdle
    /\ InitBackend
    /\ InitDevices
    /\ InitAccounts
    /\ dmEmail \in Emails
    /\ dmUsers = [u \in Listed |-> FALSE]
    /\ clockSkew = [c \in Users |-> 0]

NextAdmin ==
    \/ DmMount
    \/ DmUnmount
    \/ \E u \in Users : HandleBanToggle(u)
    \/ BanWriteCommit
    \/ BanLocalUpdate
    \/ BanWriteFail
    \/ UsersSnapshot

SpecAdmin == InitAdmin /\ [][NextAdmin]_vars

\* C15: in a session whose currentUser's email is not the admin email,
\* handleBanToggle returns without a write: no ban write is issued or
\* committed, and no isBanned flag changes, in the backend or in the list.
C15_AdminOnly ==
    [][dmEmail # ADMIN_EMAIL
        => /\ banWrite = NoBanWrite /\ banWrite' = NoBanWrite
           /\ \A u \in Accounts : userDocs'[u].isBanned = userDocs[u].isBanned
           /\ dmUsers' = dmUsers
           /\ \A u \in Users : HandleBanToggle(u) => banResult' = "notAdmin"]_vars

\* A non-admin session long-pressed a user.
C15_Witness ==
    /\ dmEmail # ADMIN_EMAIL
    /\ banResult = "notAdmin"
    /\ dmMounted

(***************************************************************************)
(* SettingsScreen and AuthScreen: what else writes users/{uid}             *)
(***************************************************************************)
\* auth.currentUser of device c is set.
SignedIn(c) == c \in authUsers

\* One day in the model's unit of time, the second: 1000 * 60 * 60 * 24 ms.
Day == 86400

\* Math.ceil(x / y) for x >= 0, y > 0
CeilDiv(x, y) == (x + y - 1) \div y

\* Math.abs(x)
Abs(x) == IF x < 0 THEN 0 - x ELSE x

\* calculateDaysSinceLastChange on device c, with the lastUsernameChange the
\* screen holds and the device's clock.
calculateDaysSinceLastChange(c) ==
    IF lastUsernameChange[c] = Absent THEN 31
    ELSE CeilDiv(Abs(ClientNow(c) - lastUsernameChange[c]), Day)

\* handleUpdateUsername up to its first await.
UpdateUsername(c, name) ==
    /\ SignedIn(c)
    /\ nameWrite[c] = <<>> /\ deletePc[c] = "idle"
    /\ IF Len(name) < 3
       THEN /\ toast' = [toast EXCEPT ![c] = "Invalid Username"]
            /\ UNCHANGED nameWrite
       ELSE IF calculateDaysSinceLastChange(c) < 30
       THEN /\ toast' = [toast EXCEPT ![c] = "Cooldown Active"]
            /\ UNCHANGED nameWrite
       ELSE /\ nameWrite' = [nameWrite EXCEPT ![c] = name]
            /\ toast' = [toast EXCEPT ![c] = "none"]
    /\ UNCHANGED <<idVars, reportVars, authUsers, deletePc, signupPc, dmEmail,
                   lastUsernameChange, fetchPc, backendVars, now, clockSkew,
                   screenVars, taskVars, dmVars, histVars>>

\* updateProfile and updateDoc(users/{uid}, {username, lastUsernameChange:
\* Timestamp.now()}) are committed and fetchUserData() is called, or the
\* updateDoc is rejected as not-found.
UsernameWrite(c) ==
    /\ nameWrite[c] # <<>>
    /\ IF userDocs[c].exists
       THEN /\ userDocs' = [userDocs EXCEPT
                              ![c].username = nameWrite[c],
                              ![c].lastUsernameChange = ClientNow(c)]
            /\ toast' = [toast EXCEPT ![c] = "Success"]
            /\ fetchPc' = [fetchPc EXCEPT ![c] = "fetch"]
            /\ UsersWritten
       ELSE /\ toast' = [toast EXCEPT ![c] = "Update Failed"]
            /\ UNCHANGED <<userDocs, fetchPc, dmPending>>
    /\ nameWrite' = [nameWrite EXCEPT ![c] = <<>>]
    /\ UNCHANGED <<idVars, reportVars, authUsers, deletePc, signupPc, dmEmail,
                   lastUsernameChange, chats, msgs, now, clockSkew, screenVars,
                   taskVars, dmScreen, histVars>>

\* fetchUserData: the getDoc of users/{uid} resolves;
\* setLastUsernameChange(data.lastUsernameChange || null) if the record exists.
FetchUserData(c) ==
    /\ fetchPc[c] = "fetch"
    /\ fetchPc' = [fetchPc EXCEPT ![c] = "idle"]
    /\ lastUsernameChange' =
         [lastUsernameChange EXCEPT
            ![c] = IF userDocs[c].exists THEN userDocs[c].lastUsernameChange ELSE @]
    /\ UNCHANGED <<idVars, reportVars, authUsers, deletePc, nameWrite, signupPc,
                   toast, dmEmail, backendVars, now, clockSkew, screenVars,
                   taskVars, dmVars, histVars>>

\* handleDeleteAccount: the confirm button is pressed; deleteDoc is issued.
\* The user is on the settings tab, no ChatScreen is open.
DeleteAccount(c) ==
    /\ SignedIn(c)
    /\ ~mounted[c]
    /\ deletePc[c] = "idle" /\ nameWrite[c] = <<>>
    /\ deletePc' = [deletePc EXCEPT ![c] = "doc"]
    /\ toast' = [toast EXCEPT ![c] = "none"]
    /\ UNCHANGED <<idVars, reportVars, authUsers, nameWrite, signupPc, dmEmail,
                   lastUsernameChange, fetchPc, backendVars, now, clockSkew,
                   screenVars, taskVars, dmVars, histVars>>

\* A deletion that also removes the messages of the user's conversations.
DeleteUserDocCascade(db, c) ==
    [db EXCEPT
        !.users[c] = NoUser,
        !.msgs = [id \in DOMAIN @ |->
                    IF \E r \in Accounts : r # c /\ id = ChatId(c, r)
                    THEN <<>> ELSE @[id]]]

\* deleteDoc(doc(db, 'users', uid)) applied to the database: the record of
\* the user goes, every other document stays.
DeleteUserDoc(db, c) == [db EXCEPT !.users[c] = NoUser]

\* 1. deleteDoc(doc(db, 'users', user.uid)) is committed; deleteUser is issued.
DeleteDocCommit(c) ==
    /\ deletePc[c] = "doc"
    /\ LET db == DeleteUserDoc([users |-> userDocs, msgs |-> msgs], c)
       IN  /\ userDocs' = db.users
           /\ msgs' = db.msgs
    /\ deletePc' = [deletePc EXCEPT ![c] = "auth"]
    /\ UsersWritten
    /\ UNCHANGED <<idVars, reportVars, authUsers, nameWrite, signupPc, toast,
                   dmEmail, lastUsernameChange, fetchPc, chats, now, clockSkew,
                   screenVars, taskVars, dmScreen, histVars>>

\* 2. deleteUser(user) succeeds: the account is gone, router.replace('/auth').
DeleteUserCommit(c) ==
    /\ deletePc[c] = "auth"
    /\ authUsers' = authUsers \ {c}
    /\ deletePc' = [deletePc EXCEPT ![c] = "idle"]
    /\ toast' = [toast EXCEPT ![c] = "Account Deleted"]
    /\ UNCHANGED <<idVars, reportVars, nameWrite, signupPc, dmEmail,
                   lastUsernameChange, fetchPc, backendVars, now, clockSkew,
                   screenVars, taskVars, dmVars, histVars>>

\* A call of handleDeleteAccount is rejected: deleteDoc by the backend, or
\* deleteUser with auth/requires-recent-login; the catch shows a Toast.
DeleteFail(c) ==
    /\ deletePc[c] \in {"doc", "auth"}
    /\ deletePc' = [deletePc EXCEPT ![c] = "idle"]
    /\ toast' = [toast EXCEPT
                   ![c] = IF deletePc[c] = "auth" THEN "Security Check"
                          ELSE "Delete Failed"]
    /\ UNCHANGED <<idVars, reportVars, authUsers, nameWrite, signupPc, dmEmail,
                   lastUsernameChange, fetchPc, backendVars, now, clockSkew,
                   screenVars, taskVars, dmVars, histVars>>

\* handleSignup: createUserWithEmailAndPassword gives a new uid u.
SignupAuth(u) ==
    /\ u \notin authUsers
    /\ ~userDocs[u].exists
    /\ signupPc[u] = "idle" /\ toast[u] = "none"
    /\ authUsers' = authUsers \cup {u}
    /\ signupPc' = [signupPc EXCEPT ![u] = "doc"]
    /\ UNCHANGED <<idVars, reportVars, deletePc, nameWrite, toast, dmEmail,
                   lastUsernameChange, fetchPc, backendVars, now, clockSkew,
                   screenVars, taskVars, dmVars, histVars>>

\* updateProfile and setDoc(doc(db, "users", user.uid), {email, username:
\* "Reader", ...}) are committed: Toast "Account Created" and
\* router.replace('/(tabs)/library').
SignupDoc(u) ==
    /\ signupPc[u] = "doc"
    /\ userDocs' = [userDocs EXCEPT ![u] = NewUser]
    /\ signupPc' = [signupPc EXCEPT ![u] = "idle"]
    /\ toast' = [toast EXCEPT ![u] = "Account Created"]
    /\ UsersWritten
    /\ UNCHANGED <<idVars, reportVars, authUsers, deletePc, nameWrite, dmEmail,
                   lastUsernameChange, fetchPc, chats, msgs, now, clockSkew,
                   screenVars, taskVars, dmScreen, histVars>>

\* updateProfile or the setDoc is rejected:
\* try { await user.delete() } catch (e) {}, whose outcome is `rolledBack`,
\* then Toast "Signup Failed"; router.replace is not reached.
SignupDocFail(u, rolledBack) ==
    /\ signupPc[u] = "doc"
    /\ authUsers' = IF rolledBack THEN authUsers \ {u} ELSE authUsers
    /\ signupPc' = [signupPc EXCEPT ![u] = "idle"]
    /\ toast' = [toast EXCEPT ![u] = "Signup Failed"]
    /\ UNCHANGED <<idVars, reportVars, deletePc, nameWrite, dmEmail,
                   lastUsernameChange, fetchPc, backendVars, now, clockSkew,
                   screenVars, taskVars, dmVars, histVars>>

\* New usernames the user enters: too short, and long enough.
Names == {<<"a", "b">>, <<"a", "b", "c">>}

\* u1 and u2 have signed up, u3 has not.
InitModeration ==
    /\ IdIdle
    /\ InitBackend
    /\ InitDevices
    /\ userDocs = [u \in Accounts |-> IF u \in Users THEN NewUser ELSE NoUser]
    /\ authUsers = Users
    /\ dmEmail = ADMIN_EMAIL
    /\ dmUsers = [u \in Users |-> FALSE]
    /\ clockSkew = [c \in Users |-> 0]

\* No call is in flight: of device c, of the admin session or of a signup.
Quiet(c) ==
    /\ banPc[c] = "idle" /\ resetPc[c] = "idle"
    /\ send[c].pc = "idle" /\ ~Reporting(c)
    /\ nameWrite[c] = <<>> /\ deletePc[c] = "idle" /\ fetchPc[c] = "idle"
    /\ banWrite.pc = "idle"
    /\ \A u \in Accounts : signupPc[u] = "idle"

\* What u1 does while signed in, one call at a time: it opens the
\* conversation with u2, sends a message, reports u2, changes its username
\* and deletes its account.
SignedInSteps(c) ==
    \/ Quiet(c) /\ Mount(c, U2)
    \/ CheckBanStatus(c)
    \/ Resets(c)
    \/ Quiet(c) /\ TotalMsgs = 0 /\ TypeAndSend(c, Hi)
    \/ AddDoc(c, NextId(send[c].chatId))
    \/ SetDoc(c)
    \/ Increment(c)
    \/ reports = <<>> /\ OpenReportModal(c)
    \/ ChangeReason(c, <<"b", "a", "d">>)
    \/ Quiet(c) /\ reports = <<>> /\ SubmitReport(c)
    \/ ReportAdd(c)
    \/ ReportInc(c)
    \/ \E name \in Names : Quiet(c) /\ UpdateUsername(c, name)
    \/ UsernameWrite(c)
    \/ FetchUserData(c)
    \/ Quiet(c) /\ DeleteAccount(c)
    \/ DeleteDocCommit(c)
    \/ DeleteUserCommit(c)
    \/ DeleteFail(c)

\* u1 uses the application, u3 signs up, the admin bans and unbans u1, and
\* time passes; one call runs at a time.
NextModeration ==
    \/ SignedIn(U1) /\ SignedInSteps(U1)
    \/ Quiet(U1) /\ SignupAuth(U3)
    \/ SignupDoc(U3)
    \/ \E rolledBack \in BOOLEAN : SignupDocFail(U3, rolledBack)
    \/ Quiet(U1) /\ HandleBanToggle(U1)
    \/ BanWriteCommit
    \/ BanLocalUpdate
    \/ UsersSnapshot
    \/ Tick

SpecModeration == InitModeration /\ [][NextModeration]_vars

\* C16: the outcome of a user's ban check (userDoc.exists() && isBanned)
\* changes only in the commit of the admin's ban toggle for that user: no
\* send, report, username change, account deletion, signup or passing of
\* time changes it.
C16_OnlyAdminChangesBan ==
    [][\A u \in Accounts :
        (BanCheck(u))' # BanCheck(u) => BanWriteCommit /\ banWrite.user = u]_vars

(***************************************************************************)
(* Successive snapshots of one subscriber                                  *)
(***************************************************************************)
IsPrefix(s, t) == Len(s) <= Len(t) /\ SubSeq(t, 1, Len(s)) = s

\* C19: every snapshot delivered to a chat screen extends the sequence the
\* screen showed before: the messages already shown stay, in the same order,
\* and the newly delivered ones come after all of them.
C19_AppendOnly ==
    [][\A c \in Users : Deliver(c) => IsPrefix(messages[c], messages'[c])]_vars

(***************************************************************************)
(* Live subscriptions                                                      *)
(***************************************************************************)
\* The route parameter id of a mounted ChatScreen changes to r: the effects
\* that depend on recipientId and chatId are cleaned up and run again (the
\* subscription and the reset); the component state is kept.
ChangeRecipient(c, r) ==
    /\ mounted[c]
    /\ r # c /\ r # recipientId[c]
    /\ resetPc[c] = "idle"
    /\ recipientId' = [recipientId EXCEPT ![c] = r]
    /\ listeners' = [listeners EXCEPT
                       ![c] = Subscribe(Unsubscribe(@, ScreenChat(c)), ChatId(c, r))]
    /\ resetPc' = [resetPc EXCEPT ![c] = "get"]
    /\ resetRun' = [resetRun EXCEPT ![c] = 0]
    /\ UNCHANGED <<idVars, reportVars, sessionVars, backendVars, now,
                   clockSkew, mounted, isBanned, inputText, uploading,
                   messages, banPc, send, sendResult, alert, dmVars,
                   precededBy>>

\* No chat screen is open, no call of a chat screen is in flight and the
\* log of the conversation is full.
NoChatOpen ==
    /\ \A c \in Users : ~mounted[c] /\ resetPc[c] = "idle" /\ send[c].pc = "idle"
    /\ Len(msgs[ChatId(U1, U2)]) = MaxMsgs

\* The DM tab of the admin session mounts and unmounts while a ban is
\* toggled.
DmSteps ==
    \/ DmMount
    \/ DmUnmount
    \/ HandleBanToggle(U1)
    \/ BanWriteCommit
    \/ BanLocalUpdate
    \/ UsersSnapshot

\* u1 opens the conversation with u2 and sends; u2 opens, leaves and switches
\* between its conversations with u1 and u3.  The admin session shares no
\* state with the chat screens; its steps are taken while none is open,
\* after the messages have been sent.
NextSubs ==
    \/ MountChecked(U1, U2)
    \/ Resets(U1)
    \/ TypeAndSend(U1, Hi)
    \/ AddDoc(U1, NextId(send[U1].chatId))
    \/ SetDoc(U1)
    \/ Increment(U1)
    \/ \E r \in {U1, U3} : MountChecked(U2, r)
    \/ \E r \in {U1, U3} : ChangeRecipient(U2, r)
    \/ Resets(U2)
    \/ \E c \in Users : Deliver(c)
    \/ NoChatOpen /\ DmSteps

SpecSubs == Init /\ [][NextSubs]_vars

\* C20: a chat screen listens to the messages of its current conversation
\* only, an unmounted one to none (the listener of the previous mount or of
\* the previous conversation id is gone), and the DM list listens only while
\* mounted; every snapshot that changes view state is delivered to a mounted
\* screen and, on a chat screen, comes from its current conversation.
C20_Unsubscribed ==
    [][/\ \A c \in Users :
            /\ listeners'[c] = IF mounted'[c] THEN {ChatId(c, recipientId'[c])} ELSE {}
            /\ Deliver(c)
                => /\ mounted[c]
                   /\ messages'[c] = QueryMessages(msgs[ScreenChat(c)])
       /\ dmListeners' = IF dmMounted' THEN {"users"} ELSE {}
       /\ UsersSnapshot => dmMounted]_vars

\* u2 has left its conversation with u1 for the one with u3 after u1's
\* message was shown, and the DM tab is unmounted with a ban not yet shown.
C20_Witness ==
    /\ mounted[U2] /\ recipientId[U2] = U3
    /\ Len(msgs[ChatId(U1, U2)]) > 0
    /\ messages[U2] = <<>>
    /\ resetPc[U2] = "idle"
    /\ ~dmMounted
    /\ dmUsers # UsersList
    /\ banWrite.pc = "idle"

(***************************************************************************)
(* The unread badge of the DM list                                         *)
(***************************************************************************)
NewName == <<"a", "b", "c">>

\* The DM screen runs in u2's session.  u1 opens the conversation with u2,
\* sends, and changes its username; u2 looks at its DM list, long-presses
\* u1 and opens the conversation.  No backend call fails.
InitBadge ==
    /\ IdIdle
    /\ InitBackend
    /\ InitDevices
    /\ InitAccounts
    /\ dmEmail = "reader@example.com"
    /\ dmUsers = [u \in Listed |-> FALSE]
    /\ clockSkew = [c \in Users |-> 0]

NextBadge ==
    \/ MountChecked(U1, U2)
    \/ Resets(U1)
    \/ TypeAndSend(U1, Hi)
    \/ AddDoc(U1, NextId(send[U1].chatId))
    \/ SetDoc(U1)
    \/ Increment(U1)
    \/ UpdateUsername(U1, NewName)
    \/ UsernameWrite(U1)
    \/ FetchUserData(U1)
    \/ MountChecked(U2, U1)
    \/ Resets(U2)
    \/ DmMount
    \/ DmUnmount
    \/ HandleBanToggle(U1)
    \/ UsersSnapshot

\* Every backend call that was issued completes and every snapshot that is
\* on its way is delivered; what the users do is up to them.
FairBadge ==
    /\ \A c \in Users :
        /\ WF_vars(AddDoc(c, NextId(send[c].chatId)))
        /\ WF_vars(SetDoc(c))
        /\ WF_vars(Increment(c))
        /\ WF_vars(ResetGet(c))
        /\ WF_vars(ResetUpdate(c))
        /\ WF_vars(UsernameWrite(c))
        /\ WF_vars(FetchUserData(c))
    /\ WF_vars(UsersSnapshot)

SpecBadge == InitBadge /\ [][NextBadge]_vars /\ FairBadge

\* C21: after u1's successful send to u2, the badge u2's DM list shows for
\* u1 eventually equals the backend's unreadCounts[u2] of their
\* conversation (while the list is mounted).
C21_BadgeFollowsSummary ==
    (send[U1].pc = "idle" /\ Len(msgs[ChatId(U1, U2)]) > 0)
        ~> (~dmMounted \/ Badge(U1) = UnreadOf(chats[ChatId(U1, U2)], U2))

(***************************************************************************)
(* The message log under every operation                                   *)
(***************************************************************************)
\* C22: no step (of a send, a reset, a report, a ban toggle, a username
\* change, a signup or an account deletion) changes or removes a logged
\* message: every log only grows at its end; and the steps of an account
\* deletion change no message and no user record but the deleted user's own.
C22_MessagesImmutable ==
    [][/\ \A id \in ChatIds : IsPrefix(msgs[id], msgs'[id])
       /\ \A c \in Users :
            (DeleteDocCommit(c) \/ DeleteUserCommit(c))
                => /\ msgs' = msgs
                   /\ chats' = chats
                   /\ \A u \in Accounts \ {c} : userDocs'[u] = userDocs[u]]_vars

\* u1 has deleted its account; the message it sent is still in the log.
C22_Witness ==
    /\ U1 \notin authUsers
    /\ ~userDocs[U1].exists
    /\ Len(msgs[ChatId(U1, U2)]) = 1
    /\ msgs[ChatId(U1, U2)][1].senderId = U1
    /\ msgs[ChatId(U1, U2)][1].text = <<"h", "i">>

(***************************************************************************)
(* The cooldown of username changes                                        *)
(***************************************************************************)
\* Days the clock runs over.
MaxDays == 31

\* Points in time the user acts at: the start of a day and one unit later.
Times == {d * Day + e : d \in 0..MaxDays, e \in {0, 1}}

\* Time passes until t.
Elapse(t) ==
    /\ now < t
    /\ now' = t
    /\ UNCHANGED <<idVars, reportVars, sessionVars, backendVars, clockSkew,
                   screenVars, taskVars, dmVars, histVars>>

\* u1, whose clock is exact, changes its username at any of these times.
NextCooldown ==
    \/ \E t \in Times : Elapse(t)
    \/ \E name \in Names : UpdateUsername(U1, name)
    \/ UsernameWrite(U1)
    \/ FetchUserData(U1)

SpecCooldown == Init /\ [][NextCooldown]_vars

\* C23: a username change is accepted (its write is issued) only if the user
\* has never changed the username or at least 30 full days have elapsed
\* since the last successful change; stated for calls made when the screen
\* has refreshed its copy of the record after the previous change.
C23_ThirtyDaysApart ==
    [][\A c \in Users : \A name \in Names :
        (UpdateUsername(c, name) /\ nameWrite'[c] # <<>> /\ fetchPc[c] = "idle")
            => \/ userDocs[c].lastUsernameChange = Absent
               \/ now - userDocs[c].lastUsernameChange >= 30 * Day]_vars

(***************************************************************************)
(* Two participants sending concurrently                                   *)
(***************************************************************************)
\* What each participant types.
TextOf(c) == IF c = U1 THEN Hello ELSE Reply

\* lastMessage: imageUrl ? 'Sent an image' : text
Preview(m) == IF m.imageUrl # NoImage THEN ImagePreview ELSE m.text

\* Both devices have the conversation open (mounted, ban check and reset
\* done on the absent record) and their clocks are exact.
InitRace ==
    /\ InitOrder
    /\ clockSkew = [c \in Users |-> 0]

\* u1 sends "hello"s and u2 sends "hi"s or an image, each write of a send a
\* step of its own; snapshots arrive at any time.  No backend call fails and
\* nobody leaves or reopens the conversation.
NextRace ==
    \/ \E c \in Users : TypeAndSend(c, TextOf(c))
    \/ PickImage(U2, PickCap - PrefixLen)
    \/ \E c \in Users :
        \/ AddDoc(c, NextId(send[c].chatId))
        \/ SetDoc(c)
        \/ Increment(c)
        \/ Deliver(c)

SpecRace == InitRace /\ [][NextRace]_vars

\* No sendMessage is in flight.
NoSendInFlight == \A c \in Users : send[c].pc = "idle"

\* C24: whenever no send is in flight, lastMessage of the summary is the
\* preview of the message that is last in the order of the log.
C24_LastMessageIsLast ==
    LET id == ChatId(U1, U2)
        log == QueryMessages(msgs[id])
    IN  (NoSendInFlight /\ log # <<>>)
            => chats[id].lastMessage = Preview(log[Len(log)])

\* Messages of c in the log of conversation id.
SentBy(id, c) ==
    Cardinality({i \in 1..Len(msgs[id]) : msgs[id][i].senderId = c})

\* Sends of c whose append is committed and whose increment is not.
Unfinished(c) == IF send[c].pc \in {"set", "inc"} THEN 1 ELSE 0

\* C25: with both participants sending concurrently and nobody resetting,
\* in every state unreadCounts[B] is exactly the number of sends of A whose
\* increment has been committed: no increment is lost and none is doubled,
\* whatever the interleaving of the writes.
C25_IncrementsExact ==
    LET id == ChatId(U1, U2)
    IN  \A c \in Users :
            UnreadOf(chats[id], recipientId[c]) = SentBy(id, c) - Unfinished(c)

\* Both have sent one message with their writes interleaved: u1 appended
\* first and wrote the summary last; each counter is 1.
C25_Witness ==
    LET id == ChatId(U1, U2)
    IN  /\ NoSendInFlight
        /\ Len(msgs[id]) = 2
        /\ msgs[id][1].senderId = U1 /\ msgs[id][2].senderId = U2
        /\ chats[id].lastMessage = Hello
        /\ chats[id].unreadCounts[U1] = 1
        /\ chats[id].unreadCounts[U2] = 1

\* C26: when a device has the conversation open, has been delivered every
\* message of its log and no write is in flight, its own unread counter of
\* that conversation is 0.
C26_OpenChatIsRead ==
    \A c \in Users :
        (/\ mounted[c]
         /\ messages[c] = QueryMessages(msgs[ScreenChat(c)])
         /\ NoSendInFlight
         /\ \A d \in Users : resetPc[d] = "idle")
            => UnreadOf(chats[ScreenChat(c)], c) = 0

(***************************************************************************)
(* Failures of account deletion, reports, ban toggles and signup           *)
(***************************************************************************)
\* C27: when handleDeleteAccount fails, the account is as it was: the auth
\* account exists and users/{uid} still exists.
C27_FailedDeleteKeepsRecord ==
    [][\A c \in Users :
        DeleteFail(c) => (c \in authUsers' /\ userDocs'[c].exists)]_vars

\* Report records against u.
RecordsAgainst(u) ==
    Cardinality({i \in 1..Len(reports) : reports[i].reportedId = u})

\* C28: in every state a user's reportCount is at most the number of report
\* records against that user.
C28_CountAtMostRecords ==
    \A u \in Accounts : ReportCountOf(u) <= RecordsAgainst(u)

\* A report record was written and its increment was rejected: the count is
\* behind the records.
C28_Witness ==
    /\ \A c \in Users : ~Reporting(c)
    /\ \E c \in Users : alert[c] = "Failed to report user."
    /\ RecordsAgainst(U3) > 0
    /\ ReportCountOf(U3) < RecordsAgainst(U3)

\* C29: when the admin's ban toggle has completed and no snapshot of the
\* users collection is pending, the list shows for every user the isBanned
\* of the backend.
C29_ShownBanIsBackend ==
    (dmMounted /\ banWrite.pc = "idle" /\ banResult = "success" /\ ~dmPending)
        => dmUsers = UsersList

\* C30: when the handleSignup of an account has finished and its auth
\* account exists, its users document exists and the call ended with
\* "Account Created".
C30_AuthOnlyWithRecord ==
    \A u \in Accounts \ Users :
        (signupPc[u] = "idle" /\ u \in authUsers)
            => (userDocs[u].exists /\ toast[u] = "Account Created")

====
